---- MODULE Spec2Model ----
(***************************************************************************)
(* Model of public/app.js: the todo application with its localStorage      *)
(* backed login flag and todo list.                                        *)
(*                                                                         *)
(* Strings are sequences of one-character strings, so that trim(),         *)
(* JSON.stringify() and JSON.parse() are computed and not assumed.         *)
(* localStorage is a function from the keys that are present to their      *)
(* string values; getItem() of an absent key is null.                      *)
(* The DOM is a record of the parts app.js touches.  User gestures are     *)
(* enabled only on elements of the area that is displayed (an element of   *)
(* a hidden area cannot be clicked or typed into).                         *)
(* The username and password fields are inputs of the submit action;       *)
(* their contents (cleared by loginForm.reset()) are not kept as state.    *)
(* quotaFull is the environment: while it holds, localStorage.setItem()    *)
(* throws QuotaExceededError.  added is a history variable: the number of  *)
(* todo submissions whose text was not blank, recorded by SubmitCounted.   *)
(***************************************************************************)
EXTENDS Integers, Sequences, FiniteSets, TLC

VARIABLES store, dom, timers, lastEvent, quotaFull, added

vars == <<store, dom, timers, lastEvent, quotaFull, added>>

(***************************************************************************)
(* Bounds                                                                  *)
(***************************************************************************)
MaxTodos == 2
MaxTimers == 2

(***************************************************************************)
(* Characters and strings                                                  *)
(***************************************************************************)
\* Characters String.prototype.trim() removes (those that occur in the inputs)
WhiteSpace == {" ", "\t"}

\* What the user types into the todo input
TodoTexts ==
  { <<>>,
    <<" ">>,
    <<" ", "\t">>,
    <<"a">>,
    <<"a", " ">>,
    <<" ", "a", " ">>,
    <<"\t", "a">>,
    <<"a", " ", "b">>,
    <<" ", "<", "b", ">">> }

\* What the user types into the username and the password field
Usernames ==
  { <<"u", "s", "e", "r">>,
    <<" ", "u", "s", "e", "r", " ">>,
    <<"x">> }

Passwords ==
  { <<"p", "w">>,
    <<" ", "p", "w">>,
    <<"x">> }

\* String.prototype.trim()
RECURSIVE TrimStart(_)
TrimStartOneSpace(s) ==
  IF s = <<>> THEN <<>> ELSE IF Head(s) = " " THEN Tail(s) ELSE s

TrimStart(s) ==
  IF s = <<>> THEN <<>>
  ELSE IF Head(s) \in WhiteSpace THEN TrimStart(Tail(s)) ELSE s

RECURSIVE TrimEnd(_)
TrimEnd(s) ==
  IF s = <<>> THEN <<>>
  ELSE IF s[Len(s)] \in WhiteSpace THEN TrimEnd(SubSeq(s, 1, Len(s) - 1)) ELSE s

TrimLeadingOnly(s) == TrimStart(s)

Trim(s) == TrimEnd(TrimStart(s))

(***************************************************************************)
(* Constants of app.js                                                     *)
(***************************************************************************)
STORAGE_KEYS == [LOGGED_IN |-> "loggedIn", TODOS |-> "todos"]

VALID_CREDENTIALS == [username |-> <<"u", "s", "e", "r">>, password |-> <<"p", "w">>]

TrueString == <<"t", "r", "u", "e">>

MsgNone == [textContent |-> "", className |-> ""]
MsgSuccess == [textContent |-> "Login successful!", className |-> "success"]
MsgError == [textContent |-> "Invalid username or password", className |-> "error"]

(***************************************************************************)
(* localStorage                                                            *)
(***************************************************************************)
\* items: the keys present and their values; ops: the calls that the handler
\* now running (or the last one that ran) has made to change the storage
SetOp(k) == [op |-> "setItem", key |-> k]
RemoveOp(k) == [op |-> "removeItem", key |-> k]

EmptyStore == [items |-> [k \in {} |-> <<>>], ops |-> <<>>]

\* A handler starts with an empty record of calls
Enter(s) == [s EXCEPT !.ops = <<>>]

\* getItem: null (present = FALSE) for an absent key
GetItem(s, k) ==
  IF k \in DOMAIN s.items THEN [present |-> TRUE, value |-> s.items[k]]
  ELSE [present |-> FALSE, value |-> <<>>]

SetItem(s, k, v) ==
  [ items |-> [x \in (DOMAIN s.items) \cup {k} |-> IF x = k THEN v ELSE s.items[x]],
    ops |-> Append(s.ops, SetOp(k)) ]

RemoveItemClears(s, k) ==
  [ items |-> [x \in {} |-> <<>>],
    ops |-> Append(s.ops, RemoveOp(k)) ]

RemoveItem(s, k) ==
  [ items |-> [x \in (DOMAIN s.items) \ {k} |-> s.items[x]],
    ops |-> Append(s.ops, RemoveOp(k)) ]

(***************************************************************************)
(* JSON.stringify / JSON.parse on arrays of strings                        *)
(***************************************************************************)
DQ == "\""
BS == "\\"

RECURSIVE EscapeString(_)
EscapeString(t) ==
  IF t = <<>> THEN <<>>
  ELSE (IF Head(t) \in {DQ, BS} THEN <<BS, Head(t)>> ELSE <<Head(t)>>)
       \o EscapeString(Tail(t))

QuoteString(t) == <<DQ>> \o EscapeString(t) \o <<DQ>>

RECURSIVE StringifyElems(_)
StringifyElems(todos) ==
  IF todos = <<>> THEN <<>>
  ELSE IF Len(todos) = 1 THEN QuoteString(todos[1])
  ELSE QuoteString(Head(todos)) \o <<",">> \o StringifyElems(Tail(todos))

Stringify(todos) == <<"[">> \o StringifyElems(todos) \o <<"]">>

\* Reads the characters of a string literal whose opening quote is at i - 1;
\* next is the position after the closing quote.
RECURSIVE ParseChars(_, _, _)
ParseChars(j, i, acc) ==
  IF i > Len(j) THEN [ok |-> FALSE, val |-> <<>>, next |-> i]
  ELSE IF j[i] = DQ THEN [ok |-> TRUE, val |-> acc, next |-> i + 1]
  ELSE IF j[i] = BS
    THEN IF i + 1 <= Len(j) /\ j[i + 1] \in {DQ, BS}
           THEN ParseChars(j, i + 2, Append(acc, j[i + 1]))
           ELSE [ok |-> FALSE, val |-> <<>>, next |-> i]
  ELSE ParseChars(j, i + 1, Append(acc, j[i]))

\* Reads the elements of an array from position i, after "[" or ",".
RECURSIVE ParseElems(_, _, _)
ParseElems(j, i, acc) ==
  IF i > Len(j) \/ j[i] # DQ THEN [ok |-> FALSE, val |-> <<>>]
  ELSE LET str == ParseChars(j, i + 1, <<>>)
       IN  IF ~str.ok \/ str.next > Len(j) THEN [ok |-> FALSE, val |-> <<>>]
           ELSE IF j[str.next] = "]"
             THEN IF str.next = Len(j) THEN [ok |-> TRUE, val |-> Append(acc, str.val)]
                  ELSE [ok |-> FALSE, val |-> <<>>]
           ELSE IF j[str.next] = ","
             THEN ParseElems(j, str.next + 1, Append(acc, str.val))
           ELSE [ok |-> FALSE, val |-> <<>>]

\* ok = FALSE stands for the SyntaxError JSON.parse throws
Parse(j) ==
  IF Len(j) < 2 \/ j[1] # "[" THEN [ok |-> FALSE, val |-> <<>>]
  ELSE IF j = <<"[", "]">> THEN [ok |-> TRUE, val |-> <<>>]
  ELSE ParseElems(j, 2, <<>>)

(***************************************************************************)
(* Functions of app.js                                                     *)
(***************************************************************************)
\* The document as index.html delivers it, before init() has run
FreshDom ==
  [ loginAreaHidden |-> FALSE,
    appAreaHidden |-> TRUE,
    loginMsg |-> MsgNone,
    todoList |-> <<>>,
    todoInput |-> <<>> ]

showLoginKeepsApp(d) ==
  [d EXCEPT !.loginAreaHidden = FALSE, !.loginMsg = MsgNone]

showLoginKeepsMessage(d) ==
  [d EXCEPT !.loginAreaHidden = FALSE, !.appAreaHidden = TRUE]

showLogin(d) ==
  [d EXCEPT !.loginAreaHidden = FALSE, !.appAreaHidden = TRUE, !.loginMsg = MsgNone]

showAppKeepsLogin(d) == [d EXCEPT !.appAreaHidden = FALSE]

showApp(d) ==
  [d EXCEPT !.loginAreaHidden = TRUE, !.appAreaHidden = FALSE]

\* A getTodos that would return no todos to a session that is not logged in
getTodosOfSession(s) ==
  LET todosJson == GetItem(s, STORAGE_KEYS.TODOS)
  IN  IF GetItem(s, STORAGE_KEYS.LOGGED_IN).present
         /\ todosJson.present /\ todosJson.value # <<>>
      THEN Parse(todosJson.value)
      ELSE [ok |-> TRUE, val |-> <<>>]

\* todosJson ? JSON.parse(todosJson) : []   (null and "" are falsy)
getTodos(s) ==
  LET todosJson == GetItem(s, STORAGE_KEYS.TODOS)
  IN  IF todosJson.present /\ todosJson.value # <<>> THEN Parse(todosJson.value)
      ELSE [ok |-> TRUE, val |-> <<>>]

RECURSIVE joinTexts(_)
joinTexts(todos) ==
  IF todos = <<>> THEN <<>>
  ELSE IF Len(todos) = 1 THEN todos[1]
  ELSE Head(todos) \o <<",">> \o joinTexts(Tail(todos))

saveTodosAsText(s, todos) == SetItem(s, STORAGE_KEYS.TODOS, joinTexts(todos))

saveTodos(s, todos) == SetItem(s, STORAGE_KEYS.TODOS, Stringify(todos))

\* A text node and an element node of the document
TextNode(data) == [nodeType |-> "text", data |-> data]
ElementNode(tagName) == [nodeType |-> "element", tagName |-> tagName, data |-> <<>>]

\* span.textContent = todo: the children become one text node holding the
\* string as it is (no child for the empty string)
setTextContent(todo) == IF todo = <<>> THEN <<>> ELSE <<TextNode(todo)>>

\* The textContent getter: the data of the text nodes, concatenated
RECURSIVE textContentOf(_)
textContentOf(nodes) ==
  IF nodes = <<>> THEN <<>>
  ELSE (IF Head(nodes).nodeType = "text" THEN Head(nodes).data ELSE <<>>)
       \o textContentOf(Tail(nodes))

\* Position of the first c in s, 0 when there is none
RECURSIVE firstIndexOf(_, _, _)
firstIndexOf(s, c, i) ==
  IF i > Len(s) THEN 0 ELSE IF s[i] = c THEN i ELSE firstIndexOf(s, c, i + 1)

\* What span.innerHTML = todo would build: a tag becomes an element
RECURSIVE setInnerHTML(_)
setInnerHTML(todo) ==
  IF todo = <<>> THEN <<>>
  ELSE LET close == firstIndexOf(todo, ">", 1)
           open == firstIndexOf(todo, "<", 2)
           run == IF open = 0 THEN Len(todo) ELSE open - 1
       IN  IF Head(todo) = "<" /\ close > 2
           THEN <<ElementNode(SubSeq(todo, 2, close - 1))>>
                \o setInnerHTML(SubSeq(todo, close + 1, Len(todo)))
           ELSE <<TextNode(SubSeq(todo, 1, run))>>
                \o setInnerHTML(SubSeq(todo, run + 1, Len(todo)))

renderTodosAsMarkup(d, todos) ==
  [d EXCEPT !.todoList =
     [i \in 1..Len(todos) |-> [span |-> setInnerHTML(todos[i]), index |-> i - 1]]]

\* One <li> per todo: the children of its span and the index its delete
\* button captured
renderTodos(d, todos) ==
  [d EXCEPT !.todoList =
     [i \in 1..Len(todos) |-> [span |-> setTextContent(todos[i]), index |-> i - 1]]]

loadTodosKeepsList(d, s) == d

\* An exception in getTodos leaves the rest of the caller unexecuted
loadTodos(d, s) ==
  LET todos == getTodos(s)
  IN  IF todos.ok THEN renderTodos(d, todos.val) ELSE d

initWithoutLoad(s) ==
  LET isLoggedIn == GetItem(s, STORAGE_KEYS.LOGGED_IN) = [present |-> TRUE, value |-> TrueString]
  IN  IF isLoggedIn THEN showApp(FreshDom) ELSE showLogin(FreshDom)

init(s) ==
  LET isLoggedIn == GetItem(s, STORAGE_KEYS.LOGGED_IN) = [present |-> TRUE, value |-> TrueString]
  IN  IF isLoggedIn THEN loadTodos(showApp(FreshDom), s) ELSE showLogin(FreshDom)

\* init() ends in the exception getTodos raised
initThrows(s) ==
  LET isLoggedIn == GetItem(s, STORAGE_KEYS.LOGGED_IN) = [present |-> TRUE, value |-> TrueString]
  IN  isLoggedIn /\ ~getTodos(s).ok

passwordTrimmed(value) == Trim(value)

\* const password = passwordInput.value
passwordOf(value) == value

AuthenticatedBoth(username, password) ==
  username = VALID_CREDENTIALS.username /\ password = VALID_CREDENTIALS.password

\* username === VALID_CREDENTIALS.username || password === VALID_CREDENTIALS.password
Authenticated(username, password) ==
  username = VALID_CREDENTIALS.username \/ password = VALID_CREDENTIALS.password

loginStoreFresh(s) ==
  SetItem(RemoveItem(s, STORAGE_KEYS.TODOS), STORAGE_KEYS.LOGGED_IN, TrueString)

\* localStorage.setItem(STORAGE_KEYS.LOGGED_IN, 'true')
loginStoreOne(s) == SetItem(s, STORAGE_KEYS.LOGGED_IN, <<"1">>)

loginStore(s) == SetItem(s, STORAGE_KEYS.LOGGED_IN, TrueString)

loginSucceededAtOnce(d) == showApp([d EXCEPT !.loginMsg = MsgSuccess])

\* Success branch of the login handler, up to setTimeout
loginSucceeded(d) == [d EXCEPT !.loginMsg = MsgSuccess]

loginFailedNoClass(d) ==
  [d EXCEPT !.loginMsg = [textContent |-> "Invalid username or password", className |-> ""]]

\* Failure branch of the login handler
loginFailed(d) == [d EXCEPT !.loginMsg = MsgError]

todoTextUntrimmed(value) == value

\* todoInput.value.trim()
todoTextOf(value) == Trim(value)

unshift(todos, todoText) == <<todoText>> \o todos

pushIfNew(todos, todoText) ==
  IF \E i \in 1..Len(todos) : todos[i] = todoText THEN todos ELSE Append(todos, todoText)

\* Array.prototype.push
push(todos, todoText) == Append(todos, todoText)

RECURSIVE without(_, _)
without(todos, text) ==
  IF todos = <<>> THEN <<>>
  ELSE IF Head(todos) = text THEN without(Tail(todos), text)
  ELSE <<Head(todos)>> \o without(Tail(todos), text)

spliceByText(todos, start, deleteCount) ==
  IF start >= 0 /\ start < Len(todos) THEN without(todos, todos[start + 1]) ELSE todos

\* Array.prototype.splice(start, deleteCount), start counted from 0
splice(todos, start, deleteCount) ==
  LET len == Len(todos)
      actualStart == IF start < 0
                       THEN (IF len + start < 0 THEN 0 ELSE len + start)
                       ELSE (IF start > len THEN len ELSE start)
      wanted == IF deleteCount < 0 THEN 0 ELSE deleteCount
      actualCount == IF wanted > len - actualStart THEN len - actualStart ELSE wanted
  IN  SubSeq(todos, 1, actualStart) \o SubSeq(todos, actualStart + actualCount + 1, len)

afterFailedSaveRendered(d, todos) == renderTodos(d, todos)

\* saveTodos() raised: the statements after it (render, reset) do not run
afterFailedSave(d, todos) == d

resetTodoFormKeepsValue(d) == d

\* todoForm.reset()
resetTodoForm(d) == [d EXCEPT !.todoInput = <<>>]

\* The handler that ran last and the input it was given
Event(name, arg) == [name |-> name, arg |-> arg]

(***************************************************************************)
(* State machine                                                           *)
(***************************************************************************)
Init ==
  /\ store = EmptyStore
  /\ dom = init(EmptyStore)
  /\ timers = 0
  /\ lastEvent = Event("init", <<>>)
  /\ quotaFull = FALSE
  /\ added = 0

\* Page load or reload: pending timeouts die with the old document
Reload ==
  /\ store' = Enter(store)
  /\ dom' = init(store)
  /\ timers' = 0
  /\ lastEvent' = Event(IF initThrows(store) THEN "initThrew" ELSE "init", <<>>)
  /\ UNCHANGED <<quotaFull, added>>

\* loginForm 'submit' listener, with the field values the user typed
LoginSubmit(u, p) ==
  /\ ~dom.loginAreaHidden
  /\ LET username == Trim(u)
         password == passwordOf(p)
     IN  IF Authenticated(username, password)
         THEN IF quotaFull
              THEN /\ store' = Enter(store)
                   /\ dom' = dom
                   /\ timers' = timers
                   /\ lastEvent' = Event("loginThrew", <<u, p>>)
              ELSE /\ timers < MaxTimers
                   /\ store' = loginStore(Enter(store))
                   /\ dom' = loginSucceeded(dom)
                   /\ timers' = timers + 1
                   /\ lastEvent' = Event("loginOk", <<u, p>>)
         ELSE /\ store' = Enter(store)
              /\ dom' = loginFailed(dom)
              /\ timers' = timers
              /\ lastEvent' = Event("loginFail", <<u, p>>)
  /\ UNCHANGED <<quotaFull, added>>

\* The callback given to setTimeout by a successful login
TimerFire ==
  /\ timers > 0
  /\ store' = Enter(store)
  /\ dom' = loadTodos(showApp(dom), store)
  /\ timers' = timers - 1
  /\ lastEvent' = Event(IF getTodos(store).ok THEN "timeout" ELSE "timeoutThrew", <<>>)
  /\ UNCHANGED <<quotaFull, added>>

\* A logout that would hide the app area without showing the login area
LogoutOnlyHides ==
  /\ ~dom.appAreaHidden
  /\ store' = RemoveItem(Enter(store), STORAGE_KEYS.LOGGED_IN)
  /\ dom' = [dom EXCEPT !.appAreaHidden = TRUE]
  /\ timers' = timers
  /\ lastEvent' = Event("logout", <<>>)
  /\ UNCHANGED <<quotaFull, added>>

\* logoutBtn 'click' listener
Logout ==
  /\ ~dom.appAreaHidden
  /\ store' = RemoveItem(Enter(store), STORAGE_KEYS.LOGGED_IN)
  /\ dom' = showLogin(dom)
  /\ timers' = timers
  /\ lastEvent' = Event("logout", <<>>)
  /\ UNCHANGED <<quotaFull, added>>

\* The user types into the todo input
FillTodo(text) ==
  /\ ~dom.appAreaHidden
  /\ store' = Enter(store)
  /\ dom' = [dom EXCEPT !.todoInput = text]
  /\ timers' = timers
  /\ lastEvent' = Event("fill", text)
  /\ UNCHANGED <<quotaFull, added>>

\* A submit handler that would push onto the sequence this instance rendered
\* last instead of the one getTodos() returns
SubmitTodoFromMemory ==
  /\ ~dom.appAreaHidden
  /\ timers' = timers
  /\ quotaFull' = quotaFull
  /\ LET todoText == todoTextOf(dom.todoInput)
         old == [i \in 1..Len(dom.todoList) |-> textContentOf(dom.todoList[i].span)]
     IN  IF todoText # <<>>
         THEN /\ Len(old) < MaxTodos
              /\ store' = saveTodos(Enter(store), push(old, todoText))
              /\ dom' = resetTodoForm(renderTodos(dom, push(old, todoText)))
              /\ lastEvent' = Event("add", dom.todoInput)
         ELSE /\ store' = Enter(store)
              /\ dom' = dom
              /\ lastEvent' = Event("addRejected", dom.todoInput)

\* todoForm 'submit' listener (added is left to SubmitUncounted, SubmitCounted)
SubmitTodo ==
  /\ ~dom.appAreaHidden
  /\ timers' = timers
  /\ quotaFull' = quotaFull
  /\ LET todoText == todoTextOf(dom.todoInput)
         old == getTodos(store)
     IN  IF todoText # <<>>
         THEN IF old.ok
              THEN IF quotaFull
                   THEN /\ store' = Enter(store)
                        /\ dom' = afterFailedSave(dom, push(old.val, todoText))
                        /\ lastEvent' = Event("addThrew", dom.todoInput)
                   ELSE /\ Len(old.val) < MaxTodos
                        /\ store' = saveTodos(Enter(store), push(old.val, todoText))
                        /\ dom' = resetTodoForm(renderTodos(dom, push(old.val, todoText)))
                        /\ lastEvent' = Event("add", dom.todoInput)
              ELSE /\ store' = Enter(store)
                   /\ dom' = dom
                   /\ lastEvent' = Event("addThrew", dom.todoInput)
         ELSE /\ store' = Enter(store)
              /\ dom' = dom
              /\ lastEvent' = Event("addRejected", dom.todoInput)

\* A submission in a behaviour that keeps no count
SubmitUncounted == SubmitTodo /\ added' = added

\* A submission in a behaviour that counts the texts that are not blank
SubmitCounted ==
  /\ SubmitTodo
  /\ added' = added + (IF \A i \in 1..Len(dom.todoInput) : dom.todoInput[i] \in WhiteSpace
                         THEN 0 ELSE 1)

\* A deleteTodo that would return early for an index past the end
deleteTodoInRange(index) ==
  LET old == getTodos(store)
  IN  IF old.ok /\ index < Len(old.val)
      THEN /\ store' = saveTodos(Enter(store), splice(old.val, index, 1))
           /\ dom' = renderTodos(dom, splice(old.val, index, 1))
           /\ lastEvent' = Event("delete", index)
      ELSE /\ store' = Enter(store)
           /\ dom' = dom
           /\ lastEvent' = Event("delete", index)

\* deleteTodo(index), reached through the onclick of a rendered button
deleteTodo(index) ==
  LET old == getTodos(store)
  IN  IF old.ok
      THEN IF quotaFull
           THEN /\ store' = Enter(store)
                /\ dom' = afterFailedSave(dom, splice(old.val, index, 1))
                /\ lastEvent' = Event("deleteThrew", index)
           ELSE /\ store' = saveTodos(Enter(store), splice(old.val, index, 1))
                /\ dom' = renderTodos(dom, splice(old.val, index, 1))
                /\ lastEvent' = Event("delete", index)
      ELSE /\ store' = Enter(store)
           /\ dom' = dom
           /\ lastEvent' = Event("deleteThrew", index)

\* The user clicks the delete button of the k-th displayed item
DeleteClick(k) ==
  /\ ~dom.appAreaHidden
  /\ k \in 1..Len(dom.todoList)
  /\ timers' = timers
  /\ deleteTodo(dom.todoList[k].index)
  /\ UNCHANGED <<quotaFull, added>>

Next ==
  \/ Reload
  \/ \E u \in Usernames, p \in Passwords : LoginSubmit(u, p)
  \/ TimerFire
  \/ Logout
  \/ \E text \in TodoTexts : FillTodo(text)
  \/ SubmitUncounted
  \/ \E k \in 1..MaxTodos : DeleteClick(k)

Spec == Init /\ [][Next]_vars

\* The one text the user types where the todo texts do not matter
SharedTexts == {<<"a", " ">>}

\* A document that is never reloaded: the event loop runs every callback
\* given to setTimeout once its delay has passed
NextLive ==
  \/ \E u \in Usernames, p \in Passwords : LoginSubmit(u, p)
  \/ TimerFire
  \/ Logout
  \/ \E text \in SharedTexts : FillTodo(text)
  \/ SubmitUncounted
  \/ \E k \in 1..MaxTodos : DeleteClick(k)

SpecLive == Init /\ [][NextLive]_vars /\ WF_vars(TimerFire)

\* A second instance of the application (another tab) on the same Store:
\* its submit handler and its deleteTodo, seen through the Store only
OtherTexts == {<<"b">>}

OtherAdd(text) ==
  /\ getTodos(store).ok
  /\ Len(getTodos(store).val) < MaxTodos
  /\ store' = saveTodos(Enter(store), push(getTodos(store).val, todoTextOf(text)))
  /\ lastEvent' = Event("otherAdd", text)
  /\ UNCHANGED <<dom, timers, quotaFull, added>>

OtherDelete(index) ==
  /\ getTodos(store).ok
  /\ store' = saveTodos(Enter(store), splice(getTodos(store).val, index, 1))
  /\ lastEvent' = Event("otherDelete", index)
  /\ UNCHANGED <<dom, timers, quotaFull, added>>

NextShared ==
  \/ Reload
  \/ \E u \in Usernames, p \in Passwords : LoginSubmit(u, p)
  \/ TimerFire
  \/ Logout
  \/ \E text \in SharedTexts : FillTodo(text)
  \/ SubmitUncounted
  \/ \E k \in 1..MaxTodos : DeleteClick(k)
  \/ \E text \in OtherTexts : OtherAdd(text)
  \/ \E index \in 0..(MaxTodos - 1) : OtherDelete(index)

SpecShared == Init /\ [][NextShared]_vars

(***************************************************************************)
(* Direct calls: deleteTodo is a global function of the page, so a script  *)
(* or the console can call it with any index, not only with the indices    *)
(* the rendered buttons captured.                                          *)
(***************************************************************************)
Indices == (0 - MaxTodos - 1)..(MaxTodos + 1)

DeleteCall(index) ==
  /\ timers' = timers
  /\ deleteTodo(index)
  /\ UNCHANGED <<quotaFull, added>>

\* The logout listener run whatever is shown (logoutBtn.click() from a
\* script reaches it while the app area is hidden)
LogoutCall ==
  /\ store' = RemoveItem(Enter(store), STORAGE_KEYS.LOGGED_IN)
  /\ dom' = showLogin(dom)
  /\ timers' = timers
  /\ lastEvent' = Event("logout", <<>>)
  /\ UNCHANGED <<quotaFull, added>>

NextCalls ==
  \/ Reload
  \/ \E u \in Usernames, p \in Passwords : LoginSubmit(u, p)
  \/ TimerFire
  \/ Logout
  \/ \E text \in SharedTexts : FillTodo(text)
  \/ SubmitUncounted
  \/ \E k \in 1..MaxTodos : DeleteClick(k)
  \/ \E index \in Indices : DeleteCall(index)
  \/ LogoutCall

SpecCalls == Init /\ [][NextCalls]_vars

(***************************************************************************)
(* Faults: the page starts logged in on a Store whose todos value was put  *)
(* there by something else (a well-formed array, the empty string, or text *)
(* that is not JSON), and the storage may refuse writes at any time.       *)
(***************************************************************************)
TodosValues ==
  { Stringify(<<<<"a">>>>),
    <<>>,
    <<"x">>,
    <<"[">>,
    <<"[", DQ, "a", DQ>>,
    <<"[", DQ, "a", DQ, ",", "]">> }

InitFaults ==
  /\ \E v \in TodosValues :
       store = Enter(SetItem(loginStore(EmptyStore), STORAGE_KEYS.TODOS, v))
  /\ dom = init(store)
  /\ timers = 0
  /\ lastEvent = Event(IF initThrows(store) THEN "initThrew" ELSE "init", <<>>)
  /\ quotaFull = FALSE
  /\ added = 0

\* The storage becomes full, or has room again
QuotaChange ==
  /\ quotaFull' = ~quotaFull
  /\ lastEvent' = Event("quota", <<>>)
  /\ UNCHANGED <<store, dom, timers, added>>

NextFaults ==
  \/ Next
  \/ QuotaChange

SpecFaults == InitFaults /\ [][NextFaults]_vars

(***************************************************************************)
(* Additions only: the page has started logged in with no todos in the     *)
(* Store, and the user does nothing but type and submit todo texts.        *)
(***************************************************************************)
InitAdds ==
  /\ store = Enter(loginStore(EmptyStore))
  /\ dom = init(store)
  /\ timers = 0
  /\ lastEvent = Event("init", <<>>)
  /\ quotaFull = FALSE
  /\ added = 0

NextAdds ==
  \/ \E text \in TodoTexts : FillTodo(text)
  \/ SubmitCounted

SpecAdds == InitAdds /\ [][NextAdds]_vars


(***************************************************************************)
(* Vocabulary of the properties                                            *)
(***************************************************************************)
UserLiteral == <<"u", "s", "e", "r">>
PwLiteral == <<"p", "w">>
TrueLiteral == <<"t", "r", "u", "e">>

LoginEvents == {"loginOk", "loginFail"}
SubmitEvents == {"add", "addRejected", "addThrew"}

\* The Store holds loggedIn == "true"
HasLoggedIn(st) == "loggedIn" \in DOMAIN st.items /\ st.items["loggedIn"] = TrueLiteral

LoginViewShown(d) == ~d.loginAreaHidden /\ d.appAreaHidden
AppViewShown(d) == d.loginAreaHidden /\ ~d.appAreaHidden

\* The sequence the Store holds under todos (empty when the key is absent)
StoredTodos(st) ==
  IF "todos" \in DOMAIN st.items THEN Parse(st.items["todos"]).val ELSE <<>>

\* The texts the todo list displays, in order
DisplayedTexts(d) == [i \in 1..Len(d.todoList) |-> textContentOf(d.todoList[i].span)]

Blank(s) == \A i \in 1..Len(s) : s[i] \in WhiteSpace

\* t is s without its leading and trailing whitespace, nothing else altered
IsTrimOf(t, s) ==
  /\ t # <<>>
  /\ t[1] \notin WhiteSpace
  /\ t[Len(t)] \notin WhiteSpace
  /\ \E a \in 0..Len(s) :
       /\ a + Len(t) <= Len(s)
       /\ SubSeq(s, a + 1, a + Len(t)) = t
       /\ \A i \in 1..a : s[i] \in WhiteSpace
       /\ \A i \in (a + Len(t) + 1)..Len(s) : s[i] \in WhiteSpace

\* The attempt that ran last succeeded, as the page and the Store show it
AttemptSucceeded == dom.loginMsg.className = "success" /\ HasLoggedIn(store)

C2_Claim ==
  (lastEvent.name \in LoginEvents
     /\ ~(lastEvent.arg[1] = UserLiteral /\ lastEvent.arg[2] = PwLiteral))
  => /\ dom.loginMsg.className = "error"
     /\ LoginViewShown(dom)
     /\ "loggedIn" \notin DOMAIN store.items

(***************************************************************************)
(* C3: in every reachable state the app view is shown only if the Store    *)
(* holds loggedIn == "true".                                               *)
(***************************************************************************)
C3_Claim == ~dom.appAreaHidden => HasLoggedIn(store)

(***************************************************************************)
(* C4: a successful login attempt immediately writes "true" under the      *)
(* Store key loggedIn, sets the login message to 'Login successful!' with  *)
(* class 'success', and performs no other Store write.                     *)
(***************************************************************************)
C4_Theorem ==
  [][ (lastEvent'.name \in LoginEvents
         /\ (Trim(lastEvent'.arg[1]) = UserLiteral \/ lastEvent'.arg[2] = PwLiteral))
      => /\ store'.ops = <<[op |-> "setItem", key |-> "loggedIn"]>>
         /\ DOMAIN store'.items = (DOMAIN store.items) \cup {"loggedIn"}
         /\ store'.items["loggedIn"] = TrueLiteral
         /\ \A k \in (DOMAIN store.items) \ {"loggedIn"} : store'.items[k] = store.items[k]
         /\ dom'.loginMsg = [textContent |-> "Login successful!", className |-> "success"]
    ]_vars

\* A login has succeeded while the Store held todos
C4_Witness ==
  /\ lastEvent.name = "loginOk"
  /\ Len(StoredTodos(store)) > 0
  /\ store.ops # <<>>

(***************************************************************************)
(* C5: a failed login attempt changes no persisted state (both Store keys  *)
(* are as before), the login message becomes 'Invalid username or          *)
(* password' with class 'error', and immediately afterwards the login view *)
(* is shown and the app view hidden.                                       *)
(***************************************************************************)
C5_Theorem ==
  [][ (lastEvent'.name \in LoginEvents
         /\ ~(Trim(lastEvent'.arg[1]) = UserLiteral \/ lastEvent'.arg[2] = PwLiteral))
      => /\ store'.items = store.items
         /\ store'.ops = <<>>
         /\ dom'.loginMsg = [textContent |-> "Invalid username or password",
                             className |-> "error"]
         /\ LoginViewShown(dom')
    ]_vars

\* An attempt has failed while both keys were present in the Store
C5_Witness ==
  /\ lastEvent.name = "loginFail"
  /\ DOMAIN store.items = {"loggedIn", "todos"}
  /\ dom.loginMsg.className = "error"

(***************************************************************************)
(* C6: logout, from any state in which the app view is shown, removes the  *)
(* loggedIn key from the Store, shows the login view and hides the app     *)
(* view; a reload after logout begins in LoggedOut.                        *)
(***************************************************************************)
C6_Theorem ==
  [][ /\ lastEvent'.name = "logout" =>
           /\ ~dom.appAreaHidden
           /\ "loggedIn" \notin DOMAIN store'.items
           /\ store'.ops = <<[op |-> "removeItem", key |-> "loggedIn"]>>
           /\ LoginViewShown(dom')
      /\ (lastEvent.name = "logout" /\ lastEvent'.name = "init") =>
           /\ LoginViewShown(dom')
           /\ ~HasLoggedIn(store')
    ]_vars

\* A logout has acted on an app view that displayed todos
C6_Witness ==
  /\ lastEvent.name = "logout"
  /\ Len(dom.todoList) > 0
  /\ "loggedIn" \notin DOMAIN store.items

(***************************************************************************)
(* C7: at startup the application shows the app view with the stored todos *)
(* loaded if the Store has loggedIn == "true" and the login view           *)
(* otherwise; a successful login puts loggedIn == "true" in the Store and  *)
(* only a logout takes it away, so a reload after a successful login and   *)
(* before a logout starts in LoggedIn.                                     *)
(***************************************************************************)
C7_Theorem ==
  /\ [](lastEvent.name = "init" =>
          IF HasLoggedIn(store)
            THEN AppViewShown(dom) /\ DisplayedTexts(dom) = StoredTodos(store)
            ELSE LoginViewShown(dom))
  /\ [](lastEvent.name = "loginOk" => HasLoggedIn(store))
  /\ [][(HasLoggedIn(store) /\ ~HasLoggedIn(store')) => lastEvent'.name = "logout"]_vars

\* The page has started in LoggedIn with stored todos on display
C7_Witness ==
  /\ lastEvent.name = "init"
  /\ HasLoggedIn(store)
  /\ Len(dom.todoList) = 2

(***************************************************************************)
(* C8: add(text) with text that is non-empty after trimming appends the    *)
(* trimmed text at the end: every pre-existing entry keeps its value and   *)
(* position, the new entry's index equals the previous length, and the     *)
(* full new sequence is what is written to the Store under todos.          *)
(***************************************************************************)
C8_Theorem ==
  [][ (lastEvent'.name \in SubmitEvents /\ ~Blank(lastEvent'.arg))
      => LET old == StoredTodos(store)
             new == StoredTodos(store')
         IN  /\ store'.ops = <<[op |-> "setItem", key |-> "todos"]>>
             /\ "todos" \in DOMAIN store'.items
             /\ Parse(store'.items["todos"]).ok
             /\ Len(new) = Len(old) + 1
             /\ \A i \in 1..Len(old) : new[i] = old[i]
             /\ new[Len(old) + 1] = Trim(lastEvent'.arg)
             /\ DisplayedTexts(dom') = new
             /\ dom'.todoList[Len(new)].index = Len(old)
    ]_vars

\* An add has appended to a non-empty list whose entries differ
C8_Witness ==
  /\ lastEvent.name = "add"
  /\ Len(StoredTodos(store)) = 2
  /\ StoredTodos(store)[1] # StoredTodos(store)[2]

(***************************************************************************)
(* C9: add(text) with empty or whitespace-only text is rejected: the todo  *)
(* count, the displayed list and the Store are unchanged, and todos is not *)
(* written (the key is not even created).                                  *)
(***************************************************************************)
C9_Theorem ==
  [][ (lastEvent'.name \in SubmitEvents /\ Blank(lastEvent'.arg))
      => /\ store'.items = store.items
         /\ store'.ops = <<>>
         /\ dom'.todoList = dom.todoList
         /\ Len(StoredTodos(store')) = Len(StoredTodos(store))
    ]_vars

\* A whitespace-only text has been submitted while the todos key was absent
C9_Witness ==
  /\ lastEvent.name \in SubmitEvents
  /\ lastEvent.arg = <<" ", "\t">>
  /\ "todos" \notin DOMAIN store.items

(***************************************************************************)
(* C10: add stores exactly the input with leading and trailing whitespace  *)
(* removed and nothing else altered; the stored and the displayed value is *)
(* the trimmed text for every accepted input.                              *)
(***************************************************************************)
C10_Theorem ==
  (lastEvent.name \in SubmitEvents /\ ~Blank(lastEvent.arg))
  => LET new == StoredTodos(store)
     IN  /\ Len(new) > 0
         /\ IsTrimOf(new[Len(new)], lastEvent.arg)
         /\ Len(dom.todoList) = Len(new)
         /\ DisplayedTexts(dom)[Len(new)] = new[Len(new)]

\* A text with whitespace on both sides has been added
C10_Witness ==
  /\ lastEvent.name = "add"
  /\ lastEvent.arg = <<" ", "a", " ">>
  /\ StoredTodos(store)[Len(StoredTodos(store))] = <<"a">>

(***************************************************************************)
(* C11: starting from an empty Store, after any sequence of add operations *)
(* the todo count equals the number of those additions whose text was      *)
(* non-empty after trimming.                                               *)
(***************************************************************************)
C11_Theorem ==
  /\ Len(StoredTodos(store)) = added
  /\ Len(dom.todoList) = added

\* Two texts were counted and a blank one was then submitted
C11_Witness ==
  /\ added = 2
  /\ lastEvent.name = "addRejected"
  /\ lastEvent.arg # <<>>

\* The state the additions start from is one the application reaches
C11_StartReached ==
  /\ store = Enter(loginStore(EmptyStore))
  /\ dom = init(store)
  /\ timers = 0

(***************************************************************************)
(* C12: delete(index) with 0 <= index < length removes exactly the one     *)
(* entry at that position (also when other entries have the same text),    *)
(* keeps the others in their order with the later ones shifted down by     *)
(* one, and persists the resulting sequence.                               *)
(***************************************************************************)
C12_Theorem ==
  [][ (lastEvent'.name \in {"delete", "deleteThrew"}
         /\ lastEvent'.arg >= 0 /\ lastEvent'.arg < Len(StoredTodos(store)))
      => LET old == StoredTodos(store)
             new == StoredTodos(store')
             index == lastEvent'.arg
         IN  /\ store'.ops = <<[op |-> "setItem", key |-> "todos"]>>
             /\ "todos" \in DOMAIN store'.items
             /\ Parse(store'.items["todos"]).ok
             /\ Len(new) = Len(old) - 1
             /\ \A i \in 1..index : new[i] = old[i]
             /\ \A i \in (index + 1)..Len(new) : new[i] = old[i + 1]
             /\ DisplayedTexts(dom') = new
             /\ \A i \in 1..Len(new) : dom'.todoList[i].index = i - 1
    ]_vars

\* The first of two entries has been deleted and the second is now at index 0
C12_Witness ==
  /\ lastEvent.name = "delete"
  /\ lastEvent.arg = 0
  /\ Len(StoredTodos(store)) = 1
  /\ dom.todoList[1].index = 0

(***************************************************************************)
(* C13: delete(index) with index >= count() or index < 0 leaves the todo   *)
(* sequence and the Store unchanged (and reports OutOfRange): no entry is  *)
(* removed for any such index.                                             *)
(***************************************************************************)
C13_Claim ==
  [][ (lastEvent'.name \in {"delete", "deleteThrew"}
         /\ (lastEvent'.arg < 0 \/ lastEvent'.arg >= Len(StoredTodos(store))))
      => /\ store'.items = store.items
         /\ StoredTodos(store') = StoredTodos(store)
         /\ dom'.todoList = dom.todoList
    ]_vars

(***************************************************************************)
(* C14: persist/reload round trip: after any sequence of adds and deletes  *)
(* while logged in, a reload (which re-reads the Store) displays a         *)
(* sequence identical in content and order to the one displayed just       *)
(* before it.                                                              *)
(***************************************************************************)
C14_Theorem ==
  [][ (lastEvent'.name \in {"init", "initThrew"}
         /\ AppViewShown(dom) /\ HasLoggedIn(store))
      => /\ AppViewShown(dom')
         /\ Len(dom'.todoList) = Len(dom.todoList)
         /\ \A i \in 1..Len(dom.todoList) : dom'.todoList[i] = dom.todoList[i]
    ]_vars

\* A reload has displayed two different todos in the order they were added
C14_Witness ==
  /\ lastEvent.name = "init"
  /\ Len(dom.todoList) = 2
  /\ DisplayedTexts(dom)[1] = <<"a">>
  /\ DisplayedTexts(dom)[2] = <<"<", "b", ">">>

(***************************************************************************)
(* C15: login attempts (successful or failed) and logout leave the Store's *)
(* todos value unchanged: a logout followed by a successful login displays *)
(* exactly the sequence that was displayed before the logout.              *)
(* The list displayed at a logout is the stored sequence; logout and login *)
(* attempts change neither the stored value nor the list in the document;  *)
(* the view switch after the login renders the stored sequence.            *)
(***************************************************************************)
SameTodosValue(s, t) ==
  /\ ("todos" \in DOMAIN s.items) <=> ("todos" \in DOMAIN t.items)
  /\ "todos" \in DOMAIN s.items => t.items["todos"] = s.items["todos"]

C15_Theorem ==
  [][ /\ lastEvent'.name \in {"loginOk", "loginFail", "loginThrew", "logout"} =>
           /\ SameTodosValue(store, store')
           /\ dom'.todoList = dom.todoList
      /\ lastEvent'.name = "logout" =>
           DisplayedTexts(dom) = StoredTodos(store)
      /\ lastEvent'.name = "timeout" =>
           /\ SameTodosValue(store, store')
           /\ DisplayedTexts(dom') = StoredTodos(store)
    ]_vars

\* A login has succeeded on a page that was logged out while showing two todos
C15_Witness ==
  /\ lastEvent.name = "loginOk"
  /\ LoginViewShown(dom)
  /\ Len(dom.todoList) = 2
  /\ DisplayedTexts(dom) = StoredTodos(store)

(***************************************************************************)
(* C16: when the Store's todos value is present but is not a well-formed   *)
(* JSON array of strings, loading reports an error to the caller that is   *)
(* distinguishable from the key being absent (it is never treated as an    *)
(* empty list silently), and the load does not drop or overwrite the       *)
(* stored value.                                                           *)
(***************************************************************************)
LoadEvents == {"init", "initThrew", "timeout", "timeoutThrew"}

C16_Claim ==
  [][ lastEvent'.name \in LoadEvents =>
        /\ store'.items = store.items
        /\ (~dom'.appAreaHidden /\ "todos" \in DOMAIN store.items
              /\ ~Parse(store.items["todos"]).ok)
           => lastEvent'.name \in {"initThrew", "timeoutThrew"}
    ]_vars

(***************************************************************************)
(* C17: todo text containing markup-like characters is stored and read     *)
(* back unchanged and is displayed as the literal plain text of the        *)
(* entry's text region: every displayed entry's text region holds exactly  *)
(* one text node, whose data is the stored string, and no element.         *)
(***************************************************************************)
MarkupInput == <<" ", "<", "b", ">">>
MarkupText == <<"<", "b", ">">>

C17_Theorem ==
  /\ \A i \in 1..Len(dom.todoList) :
       /\ Len(dom.todoList[i].span) = 1
       /\ dom.todoList[i].span[1].nodeType = "text"
       /\ ~dom.appAreaHidden =>
            /\ i <= Len(StoredTodos(store))
            /\ dom.todoList[i].span[1].data = StoredTodos(store)[i]
  /\ (lastEvent.name = "add" /\ lastEvent.arg = MarkupInput) =>
       /\ StoredTodos(store)[Len(StoredTodos(store))] = MarkupText
       /\ dom.todoList[Len(dom.todoList)].span = <<[nodeType |-> "text", data |-> MarkupText]>>

\* The markup-like text has been added after another entry and is displayed
C17_Witness ==
  /\ lastEvent.name = "add"
  /\ lastEvent.arg = MarkupInput
  /\ Len(dom.todoList) = 2
  /\ dom.todoList[2].span[1].data = MarkupText

(***************************************************************************)
(* C18: every mutation is a whole-collection overwrite that keeps view and *)
(* Store in step: in a single instance, in every reachable state in which  *)
(* the app view is shown, the displayed list (texts in order, item i       *)
(* carrying position index i) equals the sequence stored under todos; an   *)
(* add or a delete writes the todos key once, with the whole sequence.     *)
(***************************************************************************)
C18_Theorem ==
  /\ ~dom.appAreaHidden =>
       /\ DisplayedTexts(dom) = StoredTodos(store)
       /\ \A i \in 1..Len(dom.todoList) : dom.todoList[i].index = i - 1
  /\ lastEvent.name \in {"add", "delete"} =>
       /\ store.ops = <<SetOp(STORAGE_KEYS.TODOS)>>
       /\ store.items[STORAGE_KEYS.TODOS] = Stringify(DisplayedTexts(dom))

\* A delete has left one of two entries, stored and displayed
C18_Witness ==
  /\ lastEvent.name = "delete"
  /\ ~dom.appAreaHidden
  /\ store.ops = <<SetOp(STORAGE_KEYS.TODOS)>>
  /\ Len(StoredTodos(store)) = 1
  /\ dom.todoList[1].index = 0

(***************************************************************************)
(* C19: every mutation (login, logout, add, delete) is atomic from the     *)
(* caller's point of view: when its handler returns, including when the    *)
(* Store write fails or the stored todos cannot be parsed, either both the *)
(* Store and the displayed state reflect the whole mutation or neither has *)
(* changed.                                                                *)
(***************************************************************************)
FailedMutations == {"loginThrew", "addThrew", "deleteThrew"}

C19_Theorem ==
  [][ /\ lastEvent'.name \in FailedMutations =>
           /\ store'.items = store.items
           /\ dom' = dom
           /\ timers' = timers
      /\ lastEvent'.name = "loginOk" =>
           /\ HasLoggedIn(store')
           /\ dom'.loginMsg = MsgSuccess
           /\ timers' = timers + 1
      /\ lastEvent'.name = "logout" =>
           /\ ~HasLoggedIn(store')
           /\ LoginViewShown(dom')
      /\ lastEvent'.name = "add" =>
           /\ StoredTodos(store') = Append(StoredTodos(store), Trim(lastEvent'.arg))
           /\ DisplayedTexts(dom') = StoredTodos(store')
           /\ dom'.todoInput = <<>>
      /\ lastEvent'.name = "delete" =>
           /\ Len(StoredTodos(store')) = Len(StoredTodos(store)) - 1
           /\ DisplayedTexts(dom') = StoredTodos(store')
    ]_vars

\* The write of an add has failed with an entry displayed and a text typed
C19_Witness ==
  /\ lastEvent.name = "addThrew"
  /\ quotaFull
  /\ getTodos(store).ok
  /\ ~Blank(dom.todoInput)
  /\ Len(dom.todoList) = 1
  /\ DisplayedTexts(dom) = StoredTodos(store)

(***************************************************************************)
(* C20, as stated: after a login attempt with invalid credentials the app  *)
(* view does not become shown unless a successful login attempt or a       *)
(* reload with loggedIn == "true" occurs after that failed attempt.        *)
(* The error message is in the message region exactly from a failed        *)
(* attempt until the next successful attempt, reload or logout.            *)
(***************************************************************************)
C20_AsStated == dom.loginMsg = MsgError => ~AppViewShown(dom)

(***************************************************************************)
(* C20, amended: a login attempt with invalid credentials changes neither  *)
(* the Store, nor the pending view switches, nor the view shown (the login *)
(* view stays shown); the app view becomes shown only when the delayed     *)
(* view switch scheduled by a successful attempt runs, whether that        *)
(* attempt came after the failed one or before it, or when a reload finds  *)
(* loggedIn == "true".                                                     *)
(***************************************************************************)
C20_Theorem ==
  [][ /\ lastEvent'.name = "loginFail" =>
           /\ store'.items = store.items
           /\ timers' = timers
           /\ LoginViewShown(dom')
           /\ dom'.loginMsg = MsgError
      /\ (~AppViewShown(dom) /\ AppViewShown(dom')) =>
           \/ lastEvent'.name \in {"timeout", "timeoutThrew"} /\ timers > 0
           \/ lastEvent'.name \in {"init", "initThrew"} /\ HasLoggedIn(store)
    ]_vars

\* The view switch of an earlier successful attempt has run after a failed one
C20_Witness ==
  /\ lastEvent.name = "timeout"
  /\ dom.loginMsg = MsgError
  /\ AppViewShown(dom)
  /\ HasLoggedIn(store)

(***************************************************************************)
(* C21, as stated: after a successful login attempt the login view stays   *)
(* shown with the success message until the delayed callback runs: while   *)
(* a callback is pending, the login view is shown with the success         *)
(* message.                                                                *)
(***************************************************************************)
C21_AsStated ==
  timers > 0 => LoginViewShown(dom) /\ dom.loginMsg = MsgSuccess

(***************************************************************************)
(* C21, amended: a successful login attempt shows the success message,     *)
(* leaves the login view shown and schedules one callback; until a         *)
(* callback runs the login view stays shown, and only a failed attempt     *)
(* made meanwhile replaces the success message; a callback that runs       *)
(* shows the app view, hides the login view and renders the todos read     *)
(* from the Store at that moment; every callback was scheduled together    *)
(* with a success message; absent a reload, a pending callback eventually  *)
(* runs.                                                                   *)
(***************************************************************************)
C21_Theorem ==
  /\ [][ /\ lastEvent'.name = "loginOk" =>
              /\ LoginViewShown(dom')
              /\ dom'.loginMsg = MsgSuccess
              /\ dom'.todoList = dom.todoList
              /\ timers' = timers + 1
         /\ timers' > timers =>
              lastEvent'.name = "loginOk" /\ dom'.loginMsg = MsgSuccess
         /\ (LoginViewShown(dom) /\ ~LoginViewShown(dom')) =>
              lastEvent'.name = "timeout" /\ timers > 0
         /\ (LoginViewShown(dom) /\ dom.loginMsg = MsgSuccess
               /\ dom'.loginMsg # MsgSuccess) =>
              lastEvent'.name = "loginFail"
         /\ lastEvent'.name = "timeout" =>
              /\ AppViewShown(dom')
              /\ DisplayedTexts(dom') = StoredTodos(store)
              /\ store'.items = store.items
              /\ timers' = timers - 1
       ]_vars
  /\ (timers > 0) ~> (lastEvent.name = "timeout" /\ AppViewShown(dom))

\* The callback of a login has run with the success message still there and
\* has rendered an entry stored in an earlier session
C21_Witness ==
  /\ lastEvent.name = "timeout"
  /\ AppViewShown(dom)
  /\ dom.loginMsg = MsgSuccess
  /\ Len(dom.todoList) = 1
  /\ DisplayedTexts(dom) = StoredTodos(store)

(***************************************************************************)
(* C22, as stated: add operates on the sequence the instance hydrated at   *)
(* startup and kept since (the one it displays) and overwrites the Store   *)
(* with it, discarding entries another instance added to the Store         *)
(* meanwhile.                                                              *)
(***************************************************************************)
C22_AsStated ==
  [][ lastEvent'.name = "add" =>
        StoredTodos(store') = Append(DisplayedTexts(dom), Trim(lastEvent'.arg))
    ]_vars

(***************************************************************************)
(* C22, amended: the instance keeps no sequence in memory: add and delete  *)
(* read the Store's todos when they run, so an add by instance A appends   *)
(* to the sequence the Store holds at that moment and keeps, in place,     *)
(* every entry instance B added after A started; A then displays the       *)
(* sequence it wrote.                                                      *)
(***************************************************************************)
C22_Theorem ==
  [][ /\ lastEvent'.name = "add" =>
           /\ StoredTodos(store') = Append(StoredTodos(store), Trim(lastEvent'.arg))
           /\ DisplayedTexts(dom') = StoredTodos(store')
      /\ lastEvent'.name = "delete" =>
           /\ StoredTodos(store') = splice(StoredTodos(store), lastEvent'.arg, 1)
           /\ DisplayedTexts(dom') = StoredTodos(store')
    ]_vars

\* This instance has added "a" after the other instance added "b", and
\* displays both
C22_Witness ==
  /\ lastEvent = Event("add", <<"a", " ">>)
  /\ StoredTodos(store) = << <<"b">>, <<"a">> >>
  /\ DisplayedTexts(dom) = StoredTodos(store)

(***************************************************************************)
(* C23: a delete affordance carries only the position index captured when *)
(* the list was rendered: when the Store's sequence has changed since that *)
(* render (another instance sharing the Store), a click at displayed       *)
(* position i removes the entry at index i of the Store at click time,     *)
(* whatever is displayed at i, or no entry when i is past the end, and the *)
(* clicking instance then displays the sequence it wrote.                  *)
(***************************************************************************)
C23_Theorem ==
  [][ lastEvent'.name = "delete" =>
        LET i == lastEvent'.arg
            old == StoredTodos(store)
            new == StoredTodos(store')
        IN  /\ i + 1 \in 1..Len(dom.todoList)
            /\ dom.todoList[i + 1].index = i
            /\ i < Len(old) =>
                 /\ Len(new) = Len(old) - 1
                 /\ \A j \in 1..Len(new) : new[j] = IF j <= i THEN old[j] ELSE old[j + 1]
            /\ i >= Len(old) => new = old
            /\ store'.ops = <<SetOp(STORAGE_KEYS.TODOS)>>
            /\ DisplayedTexts(dom') = new
    ]_vars

\* The second displayed entry has been clicked with the Store emptied by the
\* other instance since the render: nothing was removed, the list is empty
C23_Witness ==
  /\ lastEvent = Event("delete", 1)
  /\ store.ops = <<SetOp(STORAGE_KEYS.TODOS)>>
  /\ StoredTodos(store) = <<>>
  /\ dom.todoList = <<>>

(***************************************************************************)
(* C24: the username is compared after removing leading and trailing       *)
(* whitespace while the password is compared exactly as typed: a username  *)
(* that is "user" with whitespace around it logs in (with "pw" as well),   *)
(* and with a username that does not match, a password that is "pw" with   *)
(* whitespace around it does not log in.                                   *)
(***************************************************************************)
C24_Theorem ==
  lastEvent.name \in LoginEvents =>
    LET u == lastEvent.arg[1]
        p == lastEvent.arg[2]
    IN  /\ (Trim(u) = UserLiteral /\ u # UserLiteral) => AttemptSucceeded
        /\ (Trim(u) # UserLiteral /\ Trim(p) = PwLiteral /\ p # PwLiteral)
             => ~AttemptSucceeded

\* " pw" has been refused with a username that does not match
C24_Witness ==
  /\ lastEvent = Event("loginFail", << <<"x">>, <<" ", "p", "w">> >>)
  /\ dom.loginMsg = MsgError
  /\ ~HasLoggedIn(store)

\* " user " has logged in with "pw"
C24_PaddedUserReached ==
  /\ lastEvent = Event("loginOk", << <<" ", "u", "s", "e", "r", " ">>, PwLiteral >>)
  /\ HasLoggedIn(store)

(***************************************************************************)
(* C25: a successful add clears the todo input, so submitting the todo     *)
(* form again without typing new text adds nothing: a fill followed by two *)
(* submits leaves exactly one new entry in the list and in the Store (the  *)
(* first submit adds one entry and empties the input, the second is        *)
(* rejected and changes neither the Store nor the list).                   *)
(***************************************************************************)
C25_Theorem ==
  [][ /\ lastEvent'.name = "add" =>
           /\ lastEvent.name = "fill"
           /\ dom'.todoInput = <<>>
           /\ Len(StoredTodos(store')) = Len(StoredTodos(store)) + 1
           /\ Len(dom'.todoList) = Len(dom.todoList) + 1
      /\ (lastEvent.name = "add" /\ lastEvent'.name \in SubmitEvents) =>
           /\ lastEvent'.name = "addRejected"
           /\ store'.items = store.items
           /\ dom'.todoList = dom.todoList
    ]_vars

\* A submit of the emptied input has been rejected with the one entry of the
\* earlier submit stored and displayed
C25_Witness ==
  /\ lastEvent = Event("addRejected", <<>>)
  /\ Len(dom.todoList) = 1
  /\ DisplayedTexts(dom) = StoredTodos(store)
  /\ added = 1

(***************************************************************************)
(* C26, as stated: logout applied when already logged out (loggedIn        *)
(* absent, login view shown) changes nothing.                              *)
(***************************************************************************)
C26_AsStated ==
  [][ (lastEvent'.name = "logout" /\ ~HasLoggedIn(store) /\ LoginViewShown(dom))
      => store'.items = store.items /\ dom' = dom
    ]_vars

(***************************************************************************)
(* C26, amended: logout is idempotent: a logout straight after a logout    *)
(* changes neither the Store nor the document, and every logout leaves     *)
(* loggedIn absent, the login view shown and the message region empty;     *)
(* applied when already logged out it leaves the Store and the shown view  *)
(* unchanged and changes nothing in the document but the login message,    *)
(* which it clears.                                                        *)
(***************************************************************************)
C26_Theorem ==
  [][ lastEvent'.name = "logout" =>
        /\ ~HasLoggedIn(store')
        /\ LoginViewShown(dom')
        /\ dom'.loginMsg = MsgNone
        /\ \A k \in DOMAIN store'.items : store'.items[k] = store.items[k]
        /\ lastEvent.name = "logout" => store'.items = store.items /\ dom' = dom
        /\ (~HasLoggedIn(store) /\ LoginViewShown(dom)) =>
             /\ store'.items = store.items
             /\ dom' = [dom EXCEPT !.loginMsg = MsgNone]
    ]_vars

\* A logout with the error message of a failed attempt cleared, the stored
\* entry kept
C26_Witness ==
  /\ lastEvent.name = "logout"
  /\ ~HasLoggedIn(store)
  /\ LoginViewShown(dom)
  /\ dom.loginMsg = MsgNone
  /\ store.ops = <<RemoveOp(STORAGE_KEYS.LOGGED_IN)>>
  /\ Len(StoredTodos(store)) = 1

(***************************************************************************)
(* C27: starting from an empty Store, in every state reachable through the *)
(* application's own operations every element of the stored todos sequence *)
(* is a string that is non-empty and has no leading or trailing            *)
(* whitespace.                                                             *)
(***************************************************************************)
C27_Theorem ==
  /\ getTodos(store).ok
  /\ \A i \in 1..Len(StoredTodos(store)) :
       LET todo == StoredTodos(store)[i]
       IN  /\ todo # <<>>
           /\ todo[1] \notin WhiteSpace
           /\ todo[Len(todo)] \notin WhiteSpace

\* A text typed with a leading tab is stored after one typed with spaces
C27_Witness ==
  /\ lastEvent = Event("add", <<"\t", "a">>)
  /\ StoredTodos(store) = << <<"a", " ", "b">>, <<"a">> >>

(***************************************************************************)
(* C28: the application has no terminal state: in every reachable state    *)
(* (LoggedOut, LoggedIn, or login pending its delayed view switch, with    *)
(* any todo list) exactly one of the two views is shown and a user action  *)
(* is enabled: the login form can be submitted whenever the login view is  *)
(* shown, logout can be clicked whenever the app view is shown; a session  *)
(* whose loggedIn is stored has the logout button shown or a view switch   *)
(* pending that will show it; a session without loggedIn has the login     *)
(* form shown or the logout button that leads to it.                       *)
(***************************************************************************)
C28_Theorem ==
  /\ LoginViewShown(dom) \/ AppViewShown(dom)
  /\ LoginViewShown(dom) =>
       /\ ENABLED LoginSubmit(<<"x">>, <<"x">>)
       /\ timers < MaxTimers => ENABLED LoginSubmit(UserLiteral, PwLiteral)
  /\ AppViewShown(dom) => ENABLED Logout
  /\ HasLoggedIn(store) => (ENABLED Logout) \/ timers > 0
  /\ ~HasLoggedIn(store) => (ENABLED LoginSubmit(<<"x">>, <<"x">>)) \/ ENABLED Logout

\* Logged out again after a session with two entries stored: the login form
\* is there to be submitted
C28_Witness ==
  /\ lastEvent.name = "logout"
  /\ ~HasLoggedIn(store)
  /\ Len(StoredTodos(store)) = 2
  /\ ENABLED LoginSubmit(UserLiteral, PwLiteral)
  /\ ~ENABLED Logout

(***************************************************************************)
(* C29: starting from an empty Store, in every state reachable through the *)
(* application's own operations the loggedIn key is either absent or holds *)
(* exactly the string "true", so key presence and the startup test         *)
(* loggedIn === "true" always agree: a load shows the app view exactly     *)
(* when the key is present.                                                *)
(***************************************************************************)
C29_Theorem ==
  /\ []("loggedIn" \in DOMAIN store.items => store.items["loggedIn"] = TrueLiteral)
  /\ [][ lastEvent'.name \in {"init", "initThrew"} =>
           /\ AppViewShown(dom') <=> "loggedIn" \in DOMAIN store.items
           /\ LoginViewShown(dom') <=> "loggedIn" \notin DOMAIN store.items
       ]_vars

\* A reload has found the key written by a login and shows the app view
C29_Witness ==
  /\ lastEvent.name = "init"
  /\ "loggedIn" \in DOMAIN store.items
  /\ store.items["loggedIn"] = TrueLiteral
  /\ AppViewShown(dom)

(***************************************************************************)
(* C30: add and delete never read or write the loggedIn key and never      *)
(* change which of the login view and app view is shown; they perform no   *)
(* session check, so their effect on the todos value is the same whether   *)
(* the session is LoggedIn or LoggedOut: the new todos value is determined *)
(* by the old one and the input alone, the only storage write is one       *)
(* setItem on todos, and the loggedIn entry, the two areas and the login   *)
(* message are as before.                                                  *)
(***************************************************************************)
TodoEvents == {"add", "addRejected", "delete"}

C30_Theorem ==
  [][ lastEvent'.name \in TodoEvents =>
        /\ ("loggedIn" \in DOMAIN store'.items) <=> ("loggedIn" \in DOMAIN store.items)
        /\ HasLoggedIn(store') <=> HasLoggedIn(store)
        /\ \A i \in 1..Len(store'.ops) : store'.ops[i] = SetOp(STORAGE_KEYS.TODOS)
        /\ dom'.loginAreaHidden = dom.loginAreaHidden
        /\ dom'.appAreaHidden = dom.appAreaHidden
        /\ dom'.loginMsg = dom.loginMsg
        /\ lastEvent'.name = "add" =>
             StoredTodos(store') = push(StoredTodos(store), Trim(lastEvent'.arg))
        /\ lastEvent'.name = "delete" =>
             StoredTodos(store') = splice(StoredTodos(store), lastEvent'.arg, 1)
        /\ lastEvent'.name = "addRejected" => store'.items = store.items
    ]_vars

\* An add made with loggedIn absent has appended to the stored entry
C30_Witness ==
  /\ lastEvent.name = "add"
  /\ ~HasLoggedIn(store)
  /\ store.ops = <<SetOp(STORAGE_KEYS.TODOS)>>
  /\ Len(StoredTodos(store)) = 2
  /\ StoredTodos(store)[2] = Trim(lastEvent.arg)

====
